---- MODULE Spec2Model ----
(***************************************************************************)
(* flask_discord.models.user.User: construction from a JSON payload, the   *)
(* derived properties, and the three remote operations (add_to_guild,      *)
(* fetch_guilds, fetch_connections) with the two caches they maintain.     *)
(*                                                                         *)
(* Python values are tagged records: None, Str(<<chars>>), IntV(n),        *)
(* BoolV(b), Dict(set of <<key, value>> pairs).  A call's outcome is       *)
(* Return(value) or Raise(error class name).                               *)
(***************************************************************************)
EXTENDS Integers, Sequences, FiniteSets, TLC

VARIABLES
    payload,       \* the mapping handed to User(payload)
    self,          \* the User object's plain attributes, None while no object exists
    _guilds,       \* self._guilds: insertion-ordered dict, a sequence of [k, v] items
    connections,   \* self.connections: list
    session,       \* flask.session (read-only from this layer)
    config,        \* flask.current_app.config (read-only from this layer)
    sent,          \* the requests the last call handed to self._request
    ret,           \* the last call, and how it ended
    lastGuilds,    \* history: what Guild.fetch_from_api() produced in the latest successful fetch_guilds
    lastConns,     \* history: what UserConnection.fetch_from_api() returned in the latest successful fetch_connections
    fetch_called,  \* history: fetch_guilds or fetch_connections has been called
    seenGuildIds,  \* history: every key self._guilds has held
    seenConns      \* history: every element self.connections has held

vars == <<payload, self, _guilds, connections, session, config, sent, ret,
          lastGuilds, lastConns, fetch_called, seenGuildIds, seenConns>>

\* Longest sequence Guild.fetch_from_api() produces.
MaxGuilds == 2
\* Longest list UserConnection.fetch_from_api() returns.
MaxConns == 1

---------------------------------------------------------------------------
(* Python values and call outcomes *)

None == [t |-> "none"]
Str(s) == [t |-> "str", v |-> s]
IntV(i) == [t |-> "int", v |-> i]
BoolV(b) == [t |-> "bool", v |-> b]
Dict(pairs) == [t |-> "dict", v |-> pairs]

Return(x) == [kind |-> "return", value |-> x]
Raise(e) == [kind |-> "raise", err |-> e]

Digits == <<"0", "1", "2", "3", "4", "5", "6", "7", "8", "9">>

DigitValue(c) == (CHOOSE i \in 1..10 : Digits[i] = c) - 1

IsDigit(c) == \E i \in 1..10 : Digits[i] = c

RECURSIVE ParseDecimal(_)
ParseDecimal(s) ==
    IF s = <<>> THEN 0
    ELSE 10 * ParseDecimal(SubSeq(s, 1, Len(s) - 1)) + DigitValue(s[Len(s)])

\* int(x) on the values a payload holds.
int(x) ==
    CASE x.t = "int" -> Return(x.v)
      [] x.t = "bool" -> Return(IF x.v THEN 1 ELSE 0)
      [] x.t = "str" ->
            IF x.v # <<>> /\ \A i \in 1..Len(x.v) : IsDigit(x.v[i])
            THEN Return(ParseDecimal(x.v))
            ELSE Raise("ValueError")
      [] OTHER -> Raise("TypeError")

\* dict.get(key, default)
Get(d, key, default) == IF key \in DOMAIN d THEN d[key] ELSE default

\* str.startswith(prefix)
startswith(s, prefix) ==
    Len(s) >= Len(prefix) /\ SubSeq(s, 1, Len(prefix)) = prefix

\* Mutation: the `or dict()` is dropped.
OrDictDropped(x) == x

\* `x or dict()`: the empty dict when x is falsy (None or an empty mapping).
OrDict(x) == IF x = None \/ (x.t = "dict" /\ x.v = {}) THEN Dict({}) ELSE x

---------------------------------------------------------------------------
(* The insertion-ordered dict behind self._guilds *)

DictKeys(d) == {d[i].k : i \in 1..Len(d)}

\* Mutation: every assignment adds an item, also for a key already present.
DictSetAppending(d, key, value) == Append(d, [k |-> key, v |-> value])

\* d[key] = value: an existing key keeps its place, a new one goes last.
DictSet(d, key, value) ==
    IF key \in DictKeys(d)
    THEN [i \in 1..Len(d) |-> IF d[i].k = key THEN [k |-> key, v |-> value] ELSE d[i]]
    ELSE Append(d, [k |-> key, v |-> value])

\* {guild.id: guild for guild in items}
RECURSIVE GuildsById(_)
GuildsById(items) ==
    IF items = <<>> THEN <<>>
    ELSE DictSet(GuildsById(SubSeq(items, 1, Len(items) - 1)),
                 items[Len(items)].id, items[Len(items)])

\* list(d.values())
Values(d) == [i \in 1..Len(d) |-> d[i].v]

\* The guilds property.
guilds == Values(_guilds)

---------------------------------------------------------------------------
(* Collaborators outside user.py *)

\* configs.DISCORD_IMAGE_FORMAT
DISCORD_IMAGE_FORMAT == "png"

\* configs.DISCORD_ANIMATED_IMAGE_FORMAT
DISCORD_ANIMATED_IMAGE_FORMAT == "gif"

\* configs.DISCORD_USER_AVATAR_BASE_URL.format(user_id=, avatar_hash=, format=):
\* the template with its three fields filled in.
DISCORD_USER_AVATAR_BASE_URL_format(user_id, avatar_hash, format) ==
    <<"avatars/", user_id, "/", avatar_hash, ".", format>>

\* DiscordModelsBase.__init__(payload): keeps the payload as self._payload.
DiscordModelsBase__init__(p) == p

\* What self._request(...) can do with one request: a decoded JSON body, None
\* for a response without content, or an error raised.
RequestOutcomes ==
    { Return(None), Return(Dict({})),
      Return(Dict({<<"nick", "n1">>})), Return(Dict({<<"nick", "n2">>, <<"deaf", "no">>})),
      Raise("Unauthorized"), Raise("HTTPError") }

\* Guild objects Guild.fetch_from_api() can produce.
Guilds == { [id |-> 1, name |-> "a"], [id |-> 1, name |-> "b"], [id |-> 2, name |-> "a"] }

\* UserConnection objects UserConnection.fetch_from_api() can return.
UserConnections == { [id |-> "c1"], [id |-> "c2"] }

SeqsUpTo(S, n) == UNION { [1..m -> S] : m \in 0..n }

\* Guild.fetch_from_api(): the items it yields, and whether it raises after them
\* (at once, or part-way, after a first item).
GuildFetchOutcomes ==
    [items : SeqsUpTo(Guilds, MaxGuilds), raises : {FALSE}]
        \cup [items : {<<>>} \cup {<<g>> : g \in Guilds}, raises : {TRUE}]

\* UserConnection.fetch_from_api(): the list it returns, unless it raises
\* (at once, or part-way, after a first item).
ConnectionFetchOutcomes ==
    [items : SeqsUpTo(UserConnections, MaxConns), raises : {FALSE}]
        \cup [items : {<<>>} \cup {<<c>> : c \in UserConnections}, raises : {TRUE}]

\* Guild ids add_to_guild is called with.
GuildIdArgs == {1, 2}

---------------------------------------------------------------------------
(* Payloads *)

Required == {"id", "username", "discriminator"}

PlainOptional == {"mfa_enabled", "locale", "verified", "email", "flags", "premium_type"}

Keys == Required \cup {"avatar", "bot"} \cup PlainOptional

IdValues == { IntV(7), Str(<<"4", "2">>), Str(<<"x">>) }

AvatarValues == { None, Str(<<"a", "b", "c">>), Str(<<"a", "_", "b">>), Str(<<"a">>) }

MkPayload(K, i, a) ==
    [k \in K |->
        CASE k = "id" -> i
          [] k = "username" -> Str(<<"u">>)
          [] k = "discriminator" -> Str(<<"0", "1">>)
          [] k = "avatar" -> a
          [] k = "bot" -> BoolV(TRUE)
          [] k = "mfa_enabled" -> BoolV(TRUE)
          [] k = "locale" -> Str(<<"e", "n">>)
          [] k = "verified" -> BoolV(FALSE)
          [] k = "email" -> Str(<<"e">>)
          [] k = "flags" -> IntV(0)
          [] OTHER -> IntV(1)]

\* Every presence/absence combination of the keys.
Payloads == { MkPayload(K, i, a) : K \in SUBSET Keys, i \in IdValues, a \in AvatarValues }

\* The payloads the remote operations are exercised on.
SessionPayloads ==
    { MkPayload(K, Str(<<"4", "2">>), None) : K \in {Required, Keys, Keys \ {"id"}} }

EmptyMapping == [k \in {} |-> None]

LoggedIn == [k \in {"DISCORD_OAUTH2_TOKEN"} |-> [j \in {"access_token"} |-> "user-token"]]

BotConfigured == [k \in {"DISCORD_BOT_TOKEN"} |-> "bot-token"]

\* The session store and the application's configuration a call runs under.
Contexts ==
    { [session |-> EmptyMapping, config |-> BotConfigured],
      [session |-> [k \in {"DISCORD_OAUTH2_TOKEN"} |-> EmptyMapping], config |-> BotConfigured],
      [session |-> LoggedIn, config |-> BotConfigured],
      [session |-> LoggedIn, config |-> EmptyMapping] }

---------------------------------------------------------------------------
(* User *)

KeyError(key) == [kind |-> "raise", err |-> "KeyError", key |-> key]

\* Mutation: a payload without "id" gets the id 0.
User__init__DefaultId(p) ==
    IF "username" \notin DOMAIN p THEN KeyError("username")
    ELSE IF "discriminator" \notin DOMAIN p THEN KeyError("discriminator")
    ELSE Return([
        id |-> IF "id" \in DOMAIN p /\ int(p["id"]).kind = "return" THEN int(p["id"]).value ELSE 0,
        username |-> p["username"],
        discriminator |-> p["discriminator"],
        avatar_hash |-> Get(p, "avatar", p["discriminator"]),
        bot |-> Get(p, "bot", BoolV(FALSE)),
        mfa_enabled |-> Get(p, "mfa_enabled", None),
        locale |-> Get(p, "locale", None),
        verified |-> Get(p, "verified", None),
        email |-> Get(p, "email", None),
        flags |-> Get(p, "flags", None),
        premium_type |-> Get(p, "premium_type", None)])

\* User.__init__(payload): the attributes of the new object, or the error raised.
User__init__(p) ==
    LET _payload == DiscordModelsBase__init__(p) IN
    IF "id" \notin DOMAIN _payload THEN KeyError("id")
    ELSE IF int(_payload["id"]).kind = "raise" THEN int(_payload["id"])
    ELSE IF "username" \notin DOMAIN _payload THEN KeyError("username")
    ELSE IF "discriminator" \notin DOMAIN _payload THEN KeyError("discriminator")
    ELSE Return([
        id |-> int(_payload["id"]).value,
        username |-> _payload["username"],
        discriminator |-> _payload["discriminator"],
        avatar_hash |-> Get(_payload, "avatar", _payload["discriminator"]),
        bot |-> Get(_payload, "bot", BoolV(FALSE)),
        mfa_enabled |-> Get(_payload, "mfa_enabled", None),
        locale |-> Get(_payload, "locale", None),
        verified |-> Get(_payload, "verified", None),
        email |-> Get(_payload, "email", None),
        flags |-> Get(_payload, "flags", None),
        premium_type |-> Get(_payload, "premium_type", None)])

\* The name property.
name(u) == u.username

\* User.__str__
__str__(u) == name(u).v \o <<"#">> \o u.discriminator.v

\* The is_avatar_animated property: None has no startswith.
is_avatar_animated(u) ==
    IF u.avatar_hash.t = "str"
    THEN Return(BoolV(startswith(u.avatar_hash.v, <<"a", "_">>)))
    ELSE Raise("AttributeError")

\* The avatar_url property.
avatar_url(u) ==
    LET animated == is_avatar_animated(u) IN
    IF animated.kind = "raise" THEN animated
    ELSE LET image_format == IF animated.value.v THEN DISCORD_ANIMATED_IMAGE_FORMAT
                             ELSE DISCORD_IMAGE_FORMAT
         IN Return(DISCORD_USER_AVATAR_BASE_URL_format(u.id, u.avatar_hash.v, image_format))

Called(op, outcome) == [op |-> op] @@ outcome

NoCall == [op |-> "none"]

Never == [fetched |-> FALSE]

Latest(items) == [fetched |-> TRUE, items |-> items]

InitWith(P) ==
    /\ payload \in P
    /\ self = None
    /\ _guilds = <<>>
    /\ connections = <<>>
    /\ \E c \in Contexts : session = c.session /\ config = c.config
    /\ sent = <<>>
    /\ ret = NoCall
    /\ lastGuilds = Never
    /\ lastConns = Never
    /\ fetch_called = FALSE
    /\ seenGuildIds = {}
    /\ seenConns = {}

Init == InitWith(SessionPayloads)

InitConstruct == InitWith(Payloads) /\ session = LoggedIn /\ config = BotConfigured

\* user = User(payload)
Construct ==
    /\ self = None /\ ret = NoCall
    /\ LET r == User__init__(payload) IN
        /\ ret' = Called("__init__", r)
        /\ self' = IF r.kind = "return" THEN r.value ELSE None
    /\ _guilds' = <<>>
    /\ connections' = <<>>
    /\ sent' = <<>>
    /\ UNCHANGED <<payload, session, config, lastGuilds, lastConns, fetch_called,
                   seenGuildIds, seenConns>>

\* A property read or str(user): `outcome` is what the caller gets.
Read(op, outcome) ==
    /\ self # None
    /\ ret' = Called(op, outcome)
    /\ sent' = <<>>
    /\ UNCHANGED <<payload, self, _guilds, connections, session, config,
                   lastGuilds, lastConns, fetch_called, seenGuildIds, seenConns>>

read_guilds == Read("guilds", Return(guilds))

read_name == Read("name", Return(name(self)))

read__str__ == Read("__str__", Return(__str__(self)))

read_avatar_url == Read("avatar_url", avatar_url(self))

read_is_avatar_animated == Read("is_avatar_animated", is_avatar_animated(self))

\* The route, arguments and keyword arguments add_to_guild hands to self._request.
AddToGuildRequest(u, guild_id, sess, conf) ==
    [ route |-> <<"/guilds/", guild_id, "/members/", u.id>>,
      method |-> "PUT",
      oauth |-> FALSE,
      json |-> {<<"access_token", sess["DISCORD_OAUTH2_TOKEN"]["access_token"]>>},
      headers |-> {<<"Authorization", <<"Bot ", conf["DISCORD_BOT_TOKEN"]>>>>} ]

\* User.add_to_guild(guild_id), self._request answering `response`: what the
\* caller gets and the requests issued.
add_to_guild_call(u, guild_id, sess, conf, response) ==
    IF "DISCORD_OAUTH2_TOKEN" \notin DOMAIN sess
    THEN [outcome |-> KeyError("DISCORD_OAUTH2_TOKEN"), sent |-> <<>>]
    ELSE IF "access_token" \notin DOMAIN sess["DISCORD_OAUTH2_TOKEN"]
    THEN [outcome |-> KeyError("access_token"), sent |-> <<>>]
    ELSE IF "DISCORD_BOT_TOKEN" \notin DOMAIN conf
    THEN [outcome |-> KeyError("DISCORD_BOT_TOKEN"), sent |-> <<>>]
    ELSE [outcome |-> IF response.kind = "raise" THEN response
                      ELSE Return(OrDict(response.value)),
          sent |-> <<AddToGuildRequest(u, guild_id, sess, conf)>>]

\* History kept with an add_to_guild call: its argument and, when a request was
\* issued, what self._request answered.
Observed(guild_id, requests, response) ==
    IF requests = <<>> THEN [guild_id |-> guild_id]
    ELSE [guild_id |-> guild_id, response |-> response]

\* Mutation: add_to_guild also enters the joined guild in the guild cache.
add_to_guild_caching ==
    /\ self # None
    /\ \E guild_id \in GuildIdArgs, response \in RequestOutcomes :
        LET c == add_to_guild_call(self, guild_id, session, config, response) IN
        /\ ret' = Called("add_to_guild", c.outcome) @@ Observed(guild_id, c.sent, response)
        /\ sent' = c.sent
        /\ _guilds' = IF c.outcome.kind = "return"
                      THEN DictSet(_guilds, guild_id, [id |-> guild_id, name |-> "a"])
                      ELSE _guilds
    /\ UNCHANGED <<payload, self, connections, session, config,
                   lastGuilds, lastConns, fetch_called, seenGuildIds, seenConns>>

add_to_guild ==
    /\ self # None
    /\ \E guild_id \in GuildIdArgs, response \in RequestOutcomes :
        LET c == add_to_guild_call(self, guild_id, session, config, response) IN
        /\ ret' = Called("add_to_guild", c.outcome) @@ Observed(guild_id, c.sent, response)
        /\ sent' = c.sent
    /\ UNCHANGED <<payload, self, _guilds, connections, session, config,
                   lastGuilds, lastConns, fetch_called, seenGuildIds, seenConns>>

RECURSIVE Merged(_, _)
Merged(d, items) ==
    IF items = <<>> THEN d
    ELSE DictSet(Merged(d, SubSeq(items, 1, Len(items) - 1)),
                 items[Len(items)].id, items[Len(items)])

\* Mutation: the fetched guilds are merged into the cache instead of replacing it.
fetch_guilds_merging ==
    /\ self # None
    /\ \E api \in GuildFetchOutcomes :
        IF api.raises
        THEN /\ ret' = Called("fetch_guilds", Raise("HTTPError"))
             /\ UNCHANGED <<_guilds, lastGuilds, seenGuildIds>>
        ELSE /\ _guilds' = Merged(_guilds, api.items)
             /\ ret' = Called("fetch_guilds", Return(Values(_guilds')))
             /\ lastGuilds' = Latest(api.items)
             /\ seenGuildIds' = seenGuildIds \cup DictKeys(_guilds')
    /\ fetch_called' = TRUE
    /\ sent' = <<>>
    /\ UNCHANGED <<payload, self, connections, session, config, lastConns, seenConns>>

\* Mutation: the cache is filled item by item, so a failure part-way leaves the
\* items fetched so far in it.
fetch_guilds_in_place ==
    /\ self # None
    /\ \E api \in GuildFetchOutcomes :
        IF api.raises
        THEN /\ ret' = Called("fetch_guilds", Raise("HTTPError"))
             /\ _guilds' = GuildsById(api.items)
             /\ seenGuildIds' = seenGuildIds \cup DictKeys(_guilds')
             /\ UNCHANGED lastGuilds
        ELSE /\ _guilds' = GuildsById(api.items)
             /\ ret' = Called("fetch_guilds", Return(Values(_guilds')))
             /\ lastGuilds' = Latest(api.items)
             /\ seenGuildIds' = seenGuildIds \cup DictKeys(_guilds')
    /\ fetch_called' = TRUE
    /\ sent' = <<>>
    /\ UNCHANGED <<payload, self, connections, session, config, lastConns, seenConns>>

\* Mutation: a failed fetch invalidates the cache.
fetch_guilds_invalidating ==
    /\ self # None
    /\ \E api \in GuildFetchOutcomes :
        IF api.raises
        THEN /\ ret' = Called("fetch_guilds", Raise("HTTPError"))
             /\ _guilds' = <<>>
             /\ UNCHANGED <<lastGuilds, seenGuildIds>>
        ELSE /\ _guilds' = GuildsById(api.items)
             /\ ret' = Called("fetch_guilds", Return(Values(_guilds')))
             /\ lastGuilds' = Latest(api.items)
             /\ seenGuildIds' = seenGuildIds \cup DictKeys(_guilds')
    /\ fetch_called' = TRUE
    /\ sent' = <<>>
    /\ UNCHANGED <<payload, self, connections, session, config, lastConns, seenConns>>

\* User.fetch_guilds(): the comprehension runs to its end before the assignment.
fetch_guilds ==
    /\ self # None
    /\ \E api \in GuildFetchOutcomes :
        IF api.raises
        THEN /\ ret' = Called("fetch_guilds", Raise("HTTPError"))
             /\ UNCHANGED <<_guilds, lastGuilds, seenGuildIds>>
        ELSE /\ _guilds' = GuildsById(api.items)
             /\ ret' = Called("fetch_guilds", Return(Values(_guilds')))
             /\ lastGuilds' = Latest(api.items)
             /\ seenGuildIds' = seenGuildIds \cup DictKeys(_guilds')
    /\ fetch_called' = TRUE
    /\ sent' = <<>>
    /\ UNCHANGED <<payload, self, connections, session, config, lastConns, seenConns>>

\* Mutation: fetch_connections also resets the guild cache.
fetch_connections_resetting_guilds ==
    /\ self # None
    /\ \E api \in ConnectionFetchOutcomes :
        IF api.raises
        THEN /\ ret' = Called("fetch_connections", Raise("HTTPError"))
             /\ UNCHANGED <<connections, lastConns, seenConns>>
        ELSE /\ connections' = api.items
             /\ ret' = Called("fetch_connections", Return(connections'))
             /\ lastConns' = Latest(api.items)
             /\ seenConns' = seenConns \cup {connections'[i] : i \in 1..Len(connections')}
    /\ _guilds' = <<>>
    /\ fetch_called' = TRUE
    /\ sent' = <<>>
    /\ UNCHANGED <<payload, self, session, config, lastGuilds, seenGuildIds>>

\* User.fetch_connections()
fetch_connections ==
    /\ self # None
    /\ \E api \in ConnectionFetchOutcomes :
        IF api.raises
        THEN /\ ret' = Called("fetch_connections", Raise("HTTPError"))
             /\ UNCHANGED <<connections, lastConns, seenConns>>
        ELSE /\ connections' = api.items
             /\ ret' = Called("fetch_connections", Return(connections'))
             /\ lastConns' = Latest(api.items)
             /\ seenConns' = seenConns \cup {connections'[i] : i \in 1..Len(connections')}
    /\ fetch_called' = TRUE
    /\ sent' = <<>>
    /\ UNCHANGED <<payload, self, _guilds, session, config, lastGuilds, seenGuildIds>>

Next ==
    \/ Construct
    \/ read_guilds
    \/ read_name
    \/ read__str__
    \/ read_avatar_url
    \/ read_is_avatar_animated
    \/ add_to_guild
    \/ fetch_guilds
    \/ fetch_connections

Spec == Init /\ [][Next]_vars

\* Construction and the derived properties alone, over every payload.
NextConstruct ==
    \/ Construct
    \/ read_guilds
    \/ read_name
    \/ read__str__
    \/ read_avatar_url
    \/ read_is_avatar_animated

SpecConstruct == InitConstruct /\ [][NextConstruct]_vars

---------------------------------------------------------------------------
(* Properties *)

Ids(items) == {items[i].id : i \in 1..Len(items)}

Elements(list) == {list[i] : i \in 1..Len(list)}

KeyCount(d, key) == Cardinality({i \in 1..Len(d) : d[i].k = key})

FetchGuildsReturned == ret.op = "fetch_guilds" /\ ret.kind = "return"

HasUserToken ==
    /\ "DISCORD_OAUTH2_TOKEN" \in DOMAIN session
    /\ "access_token" \in DOMAIN session["DISCORD_OAUTH2_TOKEN"]

HasBotToken == "DISCORD_BOT_TOKEN" \in DOMAIN config

\* C1, as stated: after fetch_guilds() received N records, len(guilds) = N, each
\* returned guild's id is a key of the cache exactly once, and the value
\* returned is that view.
C1_LenIsNumberOfRecords ==
    FetchGuildsReturned =>
        /\ Len(guilds) = Len(lastGuilds.items)
        /\ \A id \in Ids(lastGuilds.items) : KeyCount(_guilds, id) = 1
        /\ ret.value = guilds

\* C1, amended: after fetch_guilds() received N records, len(guilds) is the
\* number of distinct ids among them (N when the ids are pairwise distinct), each
\* returned guild's id is a key of the cache exactly once, every cached guild is
\* one of the returned records stored under its own id, and the value returned
\* is that view.
C1_LenIsNumberOfDistinctIds ==
    FetchGuildsReturned =>
        LET items == lastGuilds.items IN
        /\ Len(guilds) = Cardinality(Ids(items))
        /\ (\A i, j \in 1..Len(items) : items[i].id = items[j].id => i = j)
                => Len(guilds) = Len(items)
        /\ \A id \in Ids(items) : KeyCount(_guilds, id) = 1
        /\ \A i \in 1..Len(_guilds) :
                _guilds[i].v \in Elements(items) /\ _guilds[i].v.id = _guilds[i].k
        /\ ret.value = guilds

\* C1: fetch_guilds() received two records with one id and returned a one-element
\* view.
C1_Witness ==
    /\ FetchGuildsReturned
    /\ Len(lastGuilds.items) = 2
    /\ Len(guilds) = 1

\* C2: a fetch replaces its cache: the guild cache holds exactly the guilds of
\* the latest successful fetch_guilds() (for an id returned more than once, the
\* last record with it), and connections is exactly what the latest successful
\* fetch_connections() returned.
C2_FetchReplaces ==
    /\ lastGuilds.fetched =>
        LET items == lastGuilds.items IN
        /\ DictKeys(_guilds) = Ids(items)
        /\ Len(_guilds) = Cardinality(Ids(items))
        /\ \A i \in 1..Len(_guilds) : \E j \in 1..Len(items) :
                /\ _guilds[i].v = items[j]
                /\ _guilds[i].k = items[j].id
                /\ \A m \in (j + 1)..Len(items) : items[m].id # items[j].id
    /\ lastConns.fetched => connections = lastConns.items

\* C2: both caches are populated and each has lost an entry it held after an
\* earlier fetch.
C2_Witness ==
    /\ _guilds # <<>> /\ seenGuildIds \ DictKeys(_guilds) # {}
    /\ connections # <<>> /\ seenConns \ Elements(connections) # {}

\* C3: a fetch that fails, at once or part-way, raises to the caller and leaves
\* both caches exactly as they were.
C3_FailedFetchLeavesCaches ==
    [][(ret'.op \in {"fetch_guilds", "fetch_connections"} /\ ret'.kind = "raise")
        => (_guilds' = _guilds /\ connections' = connections)]_vars

\* C3: a fetch_guilds() has just failed on a User whose caches are populated.
C3_Witness ==
    /\ ret.op = "fetch_guilds" /\ ret.kind = "raise"
    /\ _guilds # <<>> /\ connections # <<>>

\* C4: add_to_guild() in a session without a user token fails with Unauthorized
\* and with no other error, returns nothing and issues no request.
C4_UnauthorizedWithoutToken ==
    (ret.op = "add_to_guild" /\ ~HasUserToken) =>
        /\ ret.kind = "raise"
        /\ ret.err = "Unauthorized"
        /\ sent = <<>>

\* C5: User(payload) on a payload without "id" raises the missing-key error for
\* "id" and leaves no object, whichever other keys are present.
C5_MissingIdRaises ==
    "id" \notin DOMAIN payload =>
        /\ self = None
        /\ ret.op # "none" =>
            ret.op = "__init__" /\ ret.kind = "raise" /\ ret.err = "KeyError" /\ ret.key = "id"

\* C5: construction was attempted on a payload that lacks only "id".
C5_Witness ==
    /\ ret.op = "__init__"
    /\ DOMAIN payload = Keys \ {"id"}

\* C6: until fetch_guilds() or fetch_connections() is first called, guilds and
\* connections are empty.
C6_EmptyBeforeFetch ==
    ~fetch_called => (guilds = <<>> /\ connections = <<>> /\ _guilds = <<>>)

\* C6: add_to_guild() has returned a membership record and no fetch was called.
C6_Witness ==
    /\ ~fetch_called
    /\ ret.op = "add_to_guild" /\ ret.kind = "return" /\ ret.value.v # {}

C8_AnimatedFlag ==
    self # None =>
        /\ is_avatar_animated(self).kind = "return"
        /\ is_avatar_animated(self).value.t = "bool"
        /\ is_avatar_animated(self).value.v <=> startswith(self.avatar_hash.v, <<"a", "_">>)
        /\ avatar_url(self).kind = "return"
        /\ avatar_url(self).value[6] =
                (IF startswith(self.avatar_hash.v, <<"a", "_">>)
                 THEN DISCORD_ANIMATED_IMAGE_FORMAT ELSE DISCORD_IMAGE_FORMAT)
        /\ "avatar" \notin DOMAIN payload => self.avatar_hash = self.discriminator

\* C9, as stated: a populated cache never returns to empty, and a cache leaves
\* the empty state only in a step of its own fetch.
C9_PopulatedStaysPopulated ==
    [][/\ _guilds # <<>> => _guilds' # <<>>
       /\ connections # <<>> => connections' # <<>>
       /\ (_guilds = <<>> /\ _guilds' # <<>>) => ret'.op = "fetch_guilds"
       /\ (connections = <<>> /\ connections' # <<>>) => ret'.op = "fetch_connections"]_vars

\* C9, amended: a cache leaves the empty state only in a step of its own fetch
\* call, and returns to it only in a step of its own fetch call that succeeds
\* with an empty result.
C9_EmptinessChangesInOwnFetch ==
    [][/\ (_guilds = <<>> /\ _guilds' # <<>>) =>
            (ret'.op = "fetch_guilds" /\ ret'.kind = "return")
       /\ (connections = <<>> /\ connections' # <<>>) =>
            (ret'.op = "fetch_connections" /\ ret'.kind = "return")
       /\ (_guilds # <<>> /\ _guilds' = <<>>) =>
            (ret'.op = "fetch_guilds" /\ ret'.kind = "return" /\ lastGuilds'.items = <<>>)
       /\ (connections # <<>> /\ connections' = <<>>) =>
            (ret'.op = "fetch_connections" /\ ret'.kind = "return"
                /\ lastConns'.items = <<>>)]_vars

\* C9: both caches were populated and are empty again.
C9_Witness ==
    /\ seenGuildIds # {} /\ _guilds = <<>>
    /\ seenConns # {} /\ connections = <<>>

\* C10: fetch_guilds() leaves connections alone, fetch_connections() leaves the
\* guild cache alone, add_to_guild() and the reads leave both alone, and nothing
\* changes the id, username, discriminator or avatar_hash of a constructed User.
C10_Frame ==
    [][/\ ret'.op = "fetch_guilds" => connections' = connections
       /\ ret'.op = "fetch_connections" => _guilds' = _guilds
       /\ ret'.op \in {"add_to_guild", "guilds", "name", "__str__", "avatar_url",
                       "is_avatar_animated"}
            => (_guilds' = _guilds /\ connections' = connections)
       /\ self # None =>
            /\ self' # None
            /\ self'.id = self.id
            /\ self'.username = self.username
            /\ self'.discriminator = self.discriminator
            /\ self'.avatar_hash = self.avatar_hash]_vars

\* C10: fetch_guilds() has just replaced the guild cache of a User whose
\* connections were fetched earlier.
C10_Witness ==
    /\ FetchGuildsReturned
    /\ _guilds # <<>> /\ connections # <<>>

====
